---- MODULE Spec2Model ----
(***************************************************************************)
(* prometheus-metrics-combiner: the fan-out / collect / aggregate engine   *)
(* of main.go (fetchURL and aggregatorHandler), as a state machine.        *)
(*                                                                         *)
(* Text is a sequence of symbols.  A symbol is one byte, except "Z", which *)
(* stands for a run of MaxScanTokenSize bytes 'z' (a line that long does   *)
(* not fit bufio.Scanner's buffer), and the fixed messages of the handler, *)
(* each kept as one symbol.                                                *)
(***************************************************************************)
EXTENDS Naturals, Sequences, FiniteSets

\* ------------------------------------------------------------- bounds
MaxTargets == 2
MaxBodyLen == 3
MaxPrefixes == 2

\* ------------------------------------------------- program constants
StatusOK == 200
StatusInternalServerError == 500
StatusNotFound == 404
MaxScanTokenSize == 65536

MsgNoUrls == <<"No upstream URLs configured.">>
MsgAllFailed == <<"Failed to fetch one or more upstream services.">>
TextPlain == "text/plain; charset=utf-8"

\* --------------------------------------------------------------- text
BodyAlphabet == {"m", "x", "\n", "\r", "Z"}
URLs == {"u1", "u2"}

StrUpTo(alphabet, n) == UNION {[1..k -> alphabet] : k \in 0..n}

Width(c) == IF c = "Z" THEN MaxScanTokenSize ELSE 1

RECURSIVE ByteLen(_)
ByteLen(s) == IF s = <<>> THEN 0 ELSE Width(Head(s)) + ByteLen(Tail(s))

\* strings.HasPrefix
HasPrefix(s, p) == Len(p) <= Len(s) /\ SubSeq(s, 1, Len(p)) = p

\* strings.Contains, as main_test.go:103 applies it to the response body
Contains(s, sub) ==
    \E k \in 0..(Len(s) - Len(sub)) : SubSeq(s, k + 1, k + Len(sub)) = sub

\* bytes.IndexByte(data, '\n'), 1-based; 0 when there is none
IndexNL(s) ==
    IF \E i \in 1..Len(s) : s[i] = "\n"
    THEN CHOOSE i \in 1..Len(s) : s[i] = "\n" /\ \A j \in 1..(i - 1) : s[j] # "\n"
    ELSE 0

\* bufio.dropCR
dropCR(s) == IF Len(s) > 0 /\ s[Len(s)] = "\r" THEN SubSeq(s, 1, Len(s) - 1) ELSE s

\* The tokens scanner.Scan()/scanner.Text() yield for the reader's data with
\* bufio.ScanLines and the default buffer: a line ends at "\n" (one "\r"
\* before it is dropped), the last line needs no "\n", and Scan returns false
\* for good once a line does not fit MaxScanTokenSize bytes (ErrTooLong).
RECURSIVE ScanLines(_)
ScanLines(data) ==
    IF data = <<>> THEN <<>>
    ELSE LET i == IndexNL(data)
             raw == IF i = 0 THEN data ELSE SubSeq(data, 1, i - 1)
             rest == IF i = 0 THEN <<>> ELSE SubSeq(data, i + 1, Len(data))
         IN IF ByteLen(raw) >= MaxScanTokenSize THEN <<>>
            ELSE <<dropCR(raw)>> \o ScanLines(rest)

\* main.go:103-109, the prefix loop for one line: first match writes, break.
RECURSIVE EmitLineNoBreak(_, _)
EmitLineNoBreak(line, ps) ==
    IF ps = <<>> THEN <<>>
    ELSE IF HasPrefix(line, Head(ps))
         THEN line \o <<"\n">> \o EmitLineNoBreak(line, Tail(ps))
         ELSE EmitLineNoBreak(line, Tail(ps))

RECURSIVE EmitLineRec(_, _)
EmitLineRec(line, ps) ==
    IF ps = <<>> THEN <<>>
    ELSE IF HasPrefix(line, Head(ps))
         THEN line \o <<"\n">>
         ELSE EmitLineRec(line, Tail(ps))

EmitLine(line, ps) == EmitLineRec(line, ps)

RECURSIVE EmitLines(_, _)
EmitLines(lines, ps) ==
    IF lines = <<>> THEN <<>>
    ELSE EmitLine(Head(lines), ps) \o EmitLines(Tail(lines), ps)

\* main.go:100-110: what one successful body adds under a non-empty filter.
FilterBody(body, ps) == EmitLines(ScanLines(body), ps)

\* main.go:95-111: what one successful body adds to concatenatedBody.
Contribution(body, ps) == IF Len(ps) = 0 THEN body ELSE FilterBody(body, ps)

\* ------------------------------------------------------------ results
NoErr == [kind |-> "nil", url |-> "", detail |-> ""]
ErrGet(u) == [kind |-> "failed to get", url |-> u, detail |-> "connection refused"]
StatusText(code) ==
    IF code = StatusOK THEN "200 OK"
    ELSE IF code = 204 THEN "204 No Content"
    ELSE IF code = StatusNotFound THEN "404 Not Found"
    ELSE "500 Internal Server Error"
ErrStatus(u, code) == [kind |-> "bad status", url |-> u, detail |-> StatusText(code)]
ErrRead(u) == [kind |-> "failed to read body", url |-> u, detail |-> "unexpected EOF"]

Result(b, e) == [body |-> b, err |-> e]
NoResult == Result(<<>>, NoErr)

NoIO == [getErr |-> FALSE, status |-> 0, read |-> "none", data |-> <<>>]

\* net/http: nothing written yet
NoResponse == [status |-> 0, contentType |-> "", body |-> <<>>]
\* http.Error(w, msg, code)
HttpError(msg, code) == [status |-> code, contentType |-> TextPlain, body |-> msg \o <<"\n">>]

VARIABLES
    urls,             \* the configured target list
    prefixes,         \* the configured prefix filter
    verbose,          \* the -verbose flag
    upstream,         \* which bodies the upstream services may serve
    hpc,              \* per request: where aggregatorHandler stands
    spawned,          \* per request: fetch goroutines started by the loop of line 74
    wg,               \* per request: the WaitGroup counter
    chMade,           \* per request: the channel exists
    ch,               \* per request: the buffered results
    chClosed,         \* per request: close(ch) happened
    cpc,              \* per request: where the closer goroutine stands
    fpc,              \* per request and task: where fetchURL stands
    fio,              \* per request and task: what its GET and ReadAll returned
    fres,             \* per request and task: the result it sends
    bodyOpen,         \* per request and task: resp.Body is open / closed
    concatenatedBody, \* per request: the strings.Builder
    errors,           \* per request: the collected errors
    drained,          \* per request: the results received so far, in order
    w,                \* per request: what the ResponseWriter holds
    logs,             \* the process log
    panicked          \* a run-time panic that happened, "" when none

vars == <<urls, prefixes, verbose, upstream, hpc, spawned, wg, chMade, ch,
          chClosed, cpc, fpc, fio, fres, bodyOpen, concatenatedBody, errors,
          drained, w, logs, panicked>>

config == <<urls, prefixes, verbose, upstream>>

Reqs == DOMAIN hpc
Tasks == 1..Len(urls)

\* ------------------------------------------------------------- Init
\* One body ends with a line feed, one does not (as "ok" of main_test.go:121).
SampleBodies == {<<"m", "\n">>, <<"x">>}
SamplePrefixes == {<<>>, <<<<"m">>>>}
PrefixSet == {<<>>, <<"m">>, <<"x">>, <<"m", "x">>}

\* URL names are interchangeable: a non-empty list starts with "u1".
TargetLists ==
    {l \in UNION {[1..n -> URLs] : n \in 0..MaxTargets} : Len(l) > 0 => l[1] = "u1"}

\* The status codes an upstream may answer with.
UpstreamStatuses ==
    IF upstream = "any"
    THEN {StatusOK, 204, StatusNotFound, StatusInternalServerError}
    ELSE {StatusOK, StatusNotFound}

\* The bodies a successful read may return.
UpstreamBodies ==
    IF upstream = "any" THEN StrUpTo(BodyAlphabet, MaxBodyLen) ELSE SampleBodies
PrefixLists == UNION {[1..n -> PrefixSet] : n \in 0..MaxPrefixes}

InitRequests(R) ==
    /\ hpc = [r \in R |-> "entry"]
    /\ spawned = [r \in R |-> 0]
    /\ wg = [r \in R |-> 0]
    /\ chMade = [r \in R |-> FALSE]
    /\ ch = [r \in R |-> <<>>]
    /\ chClosed = [r \in R |-> FALSE]
    /\ cpc = [r \in R |-> "idle"]
    /\ fpc = [r \in R |-> [i \in Tasks |-> "idle"]]
    /\ fio = [r \in R |-> [i \in Tasks |-> NoIO]]
    /\ fres = [r \in R |-> [i \in Tasks |-> NoResult]]
    /\ bodyOpen = [r \in R |-> [i \in Tasks |-> "none"]]
    /\ concatenatedBody = [r \in R |-> <<>>]
    /\ errors = [r \in R |-> <<>>]
    /\ drained = [r \in R |-> <<>>]
    /\ w = [r \in R |-> NoResponse]
    /\ logs = <<>>
    /\ panicked = ""

\* One request against up to MaxTargets targets.
Init ==
    /\ urls \in TargetLists
    /\ prefixes \in SamplePrefixes
    /\ verbose \in BOOLEAN
    /\ upstream = "sample"
    /\ InitRequests({1})

\* One request against every target list, unfiltered and quiet: the
\* configuration under which termination is examined.
InitFair ==
    /\ urls \in TargetLists
    /\ prefixes = <<>>
    /\ verbose = FALSE
    /\ upstream = "sample"
    /\ InitRequests({1})

\* Two concurrent requests against at most one target.
InitPair ==
    /\ urls \in {<<>>, <<"u1">>}
    /\ prefixes \in SamplePrefixes
    /\ verbose \in BOOLEAN
    /\ upstream = "sample"
    /\ InitRequests({1, 2})

\* One request against at most one target: every status, body and filter.
InitOne ==
    /\ urls \in {<<>>, <<"u1">>}
    /\ prefixes \in PrefixLists
    /\ verbose = FALSE
    /\ upstream = "any"
    /\ InitRequests({1})

\* ------------------------------------------------------ fetchURL
\* main.go:24-28  resp, err := http.Get(url)
Get(r, i) ==
    /\ panicked = ""
    /\ fpc[r][i] = "get"
    /\ \/ /\ fio' = [fio EXCEPT ![r][i].getErr = TRUE]
          /\ fres' = [fres EXCEPT ![r][i] = Result(<<>>, ErrGet(urls[i]))]
          /\ fpc' = [fpc EXCEPT ![r][i] = "send"]
          /\ UNCHANGED bodyOpen
       \/ \E code \in UpstreamStatuses :
            /\ fio' = [fio EXCEPT ![r][i].status = code]
            /\ bodyOpen' = [bodyOpen EXCEPT ![r][i] = "open"]
            /\ fpc' = [fpc EXCEPT ![r][i] = "status"]
            /\ UNCHANGED fres
    /\ UNCHANGED <<config, hpc, spawned, wg, chMade, ch, chClosed, cpc,
                   concatenatedBody, errors, drained, w, logs, panicked>>

BadStatusLax(code) == code < StatusOK \/ code >= 300
\* main.go:31
BadStatus(code) == code # StatusOK

\* main.go:31-34
CheckStatus(r, i) ==
    /\ panicked = ""
    /\ fpc[r][i] = "status"
    /\ IF BadStatus(fio[r][i].status)
       THEN /\ fres' = [fres EXCEPT ![r][i] = Result(<<>>, ErrStatus(urls[i], fio[r][i].status))]
            /\ fpc' = [fpc EXCEPT ![r][i] = "send"]
       ELSE /\ fpc' = [fpc EXCEPT ![r][i] = "read"]
            /\ UNCHANGED fres
    /\ UNCHANGED <<config, hpc, spawned, wg, chMade, ch, chClosed, cpc, fio, bodyOpen,
                   concatenatedBody, errors, drained, w, logs, panicked>>

\* main.go:36-42  body, err := io.ReadAll(resp.Body)
ReadAll(r, i) ==
    /\ panicked = ""
    /\ fpc[r][i] = "read"
    /\ \/ /\ fio' = [fio EXCEPT ![r][i].read = "err"]
          /\ fres' = [fres EXCEPT ![r][i] = Result(<<>>, ErrRead(urls[i]))]
       \/ \E b \in UpstreamBodies :
            /\ fio' = [fio EXCEPT ![r][i].read = "ok", ![r][i].data = b]
            /\ fres' = [fres EXCEPT ![r][i] = Result(b, NoErr)]
    /\ fpc' = [fpc EXCEPT ![r][i] = "send"]
    /\ UNCHANGED <<config, hpc, spawned, wg, chMade, ch, chClosed, cpc, bodyOpen,
                   concatenatedBody, errors, drained, w, logs, panicked>>

CapOneShort == Len(urls) - 1
\* make(chan result, len(urls)): the capacity
Cap == Len(urls)

AfterSendLeakOnFailure(r, i) ==
    IF bodyOpen[r][i] = "open" /\ fres[r][i].err = NoErr THEN "close" ELSE "done"
\* main.go:22,29  what runs when fetchURL returns: the deferred calls, last
\* registered first: resp.Body.Close() if it was registered, then wg.Done()
AfterSend(r, i) == IF bodyOpen[r][i] = "open" THEN "close" ELSE "done"

SharedChan(r) == CHOOSE q \in Reqs : \A p \in Reqs : q <= p
\* main.go:71,75  the channel a task of request r sends on: the one made by
\* the handler call that started the task
ChanOf(r) == r

\* main.go:26,32,38,42  ch <- result{...}; blocks while the buffer is full,
\* panics on a closed channel.  The deferred calls run next.
Send(r, i) ==
    /\ panicked = ""
    /\ fpc[r][i] = "send"
    /\ IF chClosed[ChanOf(r)]
       THEN /\ panicked' = "send on closed channel"
            /\ UNCHANGED ch
       ELSE /\ Len(ch[ChanOf(r)]) < Cap
            /\ ch' = [ch EXCEPT ![ChanOf(r)] = Append(@, fres[r][i])]
            /\ UNCHANGED panicked
    /\ fpc' = [fpc EXCEPT ![r][i] = AfterSend(r, i)]
    /\ UNCHANGED <<config, hpc, spawned, wg, chMade, chClosed, cpc, fio, fres, bodyOpen,
                   concatenatedBody, errors, drained, w, logs>>

\* main.go:29  defer resp.Body.Close()
CloseBody(r, i) ==
    /\ panicked = ""
    /\ fpc[r][i] = "close"
    /\ bodyOpen' = [bodyOpen EXCEPT ![r][i] = "closed"]
    /\ fpc' = [fpc EXCEPT ![r][i] = "done"]
    /\ UNCHANGED <<config, hpc, spawned, wg, chMade, ch, chClosed, cpc, fio, fres,
                   concatenatedBody, errors, drained, w, logs, panicked>>

\* main.go:22  defer wg.Done()
WgDoneOnSuccess(r, i) ==
    /\ panicked = ""
    /\ fpc[r][i] = "done"
    /\ wg' = [wg EXCEPT ![r] = IF fres[r][i].err = NoErr /\ @ > 0 THEN @ - 1 ELSE @]
    /\ fpc' = [fpc EXCEPT ![r][i] = "exit"]
    /\ UNCHANGED <<config, hpc, spawned, chMade, ch, chClosed, cpc, fio, fres, bodyOpen,
                   concatenatedBody, errors, drained, w, logs, panicked>>

\* main.go:22  defer wg.Done(): runs last, on every path out of fetchURL
WgDone(r, i) ==
    /\ panicked = ""
    /\ fpc[r][i] = "done"
    /\ IF wg[r] = 0
       THEN /\ panicked' = "negative WaitGroup counter"
            /\ UNCHANGED wg
       ELSE /\ wg' = [wg EXCEPT ![r] = @ - 1]
            /\ UNCHANGED panicked
    /\ fpc' = [fpc EXCEPT ![r][i] = "exit"]
    /\ UNCHANGED <<config, hpc, spawned, chMade, ch, chClosed, cpc, fio, fres, bodyOpen,
                   concatenatedBody, errors, drained, w, logs>>

\* ------------------------------------------------ aggregatorHandler
LogRequest(r) == [msg |-> "Received request", req |-> r, err |-> NoErr]
LogFetchError(r, e) == [msg |-> "Error fetching URL", req |-> r, err |-> e]

EntryLogsAlways(r) == Append(logs, LogRequest(r))
\* main.go:61-63  the log after the entry of request r
EntryLogs(r) == IF verbose THEN Append(logs, LogRequest(r)) ELSE logs

\* main.go:61-63
Entry(r) ==
    /\ panicked = ""
    /\ hpc[r] = "entry"
    /\ logs' = EntryLogs(r)
    /\ hpc' = [hpc EXCEPT ![r] = "check"]
    /\ UNCHANGED <<config, spawned, wg, chMade, ch, chClosed, cpc, fpc, fio, fres,
                   bodyOpen, concatenatedBody, errors, drained, w, panicked>>

NoTargetsNever == FALSE
\* main.go:65
NoTargets == Len(urls) = 0

\* main.go:65-68
RejectNoUrls(r) ==
    /\ panicked = ""
    /\ hpc[r] = "check"
    /\ NoTargets
    /\ w' = [w EXCEPT ![r] = HttpError(MsgNoUrls, StatusInternalServerError)]
    /\ hpc' = [hpc EXCEPT ![r] = "returned"]
    /\ UNCHANGED <<config, spawned, wg, chMade, ch, chClosed, cpc, fpc, fio, fres,
                   bodyOpen, concatenatedBody, errors, drained, logs, panicked>>

\* main.go:70-73  the WaitGroup, the channel, wg.Add(len(urls))
Setup(r) ==
    /\ panicked = ""
    /\ hpc[r] = "check"
    /\ ~NoTargets
    /\ chMade' = [chMade EXCEPT ![r] = TRUE]
    /\ wg' = [wg EXCEPT ![r] = @ + Len(urls)]
    /\ hpc' = [hpc EXCEPT ![r] = "spawn"]
    /\ UNCHANGED <<config, spawned, ch, chClosed, cpc, fpc, fio, fres, bodyOpen,
                   concatenatedBody, errors, drained, w, logs, panicked>>

LoopWaitsForFetch(r) ==
    /\ spawned[r] < Len(urls)
    /\ IF spawned[r] = 0 THEN TRUE ELSE fpc[r][spawned[r]] = "exit"
\* main.go:74-75  the loop has a target left; the go statement of the
\* iteration before returned at once
LoopContinues(r) == spawned[r] < Len(urls)

SpawnSkipDuplicate(r) ==
    /\ panicked = ""
    /\ hpc[r] = "spawn"
    /\ spawned[r] < Len(urls)
    /\ spawned' = [spawned EXCEPT ![r] = @ + 1]
    /\ fpc' = IF \E k \in 1..spawned[r] : urls[k] = urls[spawned[r] + 1]
              THEN fpc
              ELSE [fpc EXCEPT ![r][spawned[r] + 1] = "get"]
    /\ UNCHANGED <<config, hpc, wg, chMade, ch, chClosed, cpc, fio, fres, bodyOpen,
                   concatenatedBody, errors, drained, w, logs, panicked>>

\* main.go:74-76  go fetchURL(u, ch, &wg), one target per iteration
Spawn(r) ==
    /\ panicked = ""
    /\ hpc[r] = "spawn"
    /\ LoopContinues(r)
    /\ spawned' = [spawned EXCEPT ![r] = @ + 1]
    /\ fpc' = [fpc EXCEPT ![r][spawned[r] + 1] = "get"]
    /\ UNCHANGED <<config, hpc, wg, chMade, ch, chClosed, cpc, fio, fres, bodyOpen,
                   concatenatedBody, errors, drained, w, logs, panicked>>

\* main.go:79-82  go func() { wg.Wait(); close(ch) }()
SpawnCloser(r) ==
    /\ panicked = ""
    /\ hpc[r] = "spawn"
    /\ spawned[r] = Len(urls)
    /\ cpc' = [cpc EXCEPT ![r] = "wait"]
    /\ hpc' = [hpc EXCEPT ![r] = "range"]
    /\ UNCHANGED <<config, spawned, wg, chMade, ch, chClosed, fpc, fio, fres, bodyOpen,
                   concatenatedBody, errors, drained, w, logs, panicked>>

WaitOverEarly(r) == wg[r] < Len(urls)
\* main.go:80  wg.Wait() returns
WaitOver(r) == wg[r] = 0

CloserWait(r) ==
    /\ panicked = ""
    /\ cpc[r] = "wait"
    /\ WaitOver(r)
    /\ cpc' = [cpc EXCEPT ![r] = "close"]
    /\ UNCHANGED <<config, hpc, spawned, wg, chMade, ch, chClosed, fpc, fio, fres,
                   bodyOpen, concatenatedBody, errors, drained, w, logs, panicked>>

\* main.go:81  close(ch)
CloserClose(r) ==
    /\ panicked = ""
    /\ cpc[r] = "close"
    /\ IF chClosed[r]
       THEN /\ panicked' = "close of closed channel"
            /\ UNCHANGED chClosed
       ELSE /\ chClosed' = [chClosed EXCEPT ![r] = TRUE]
            /\ UNCHANGED panicked
    /\ cpc' = [cpc EXCEPT ![r] = "exit"]
    /\ UNCHANGED <<config, hpc, spawned, wg, chMade, ch, fpc, fio, fres, bodyOpen,
                   concatenatedBody, errors, drained, w, logs>>

\* main.go:89
IsFailure(res) == res.err # NoErr

\* main.go:88-93  one iteration of the range loop on a failed result
RecvFailure(r) ==
    /\ panicked = ""
    /\ hpc[r] = "range"
    /\ ch[r] # <<>>
    /\ IsFailure(Head(ch[r]))
    /\ ch' = [ch EXCEPT ![r] = Tail(@)]
    /\ drained' = [drained EXCEPT ![r] = Append(@, Head(ch[r]))]
    /\ logs' = Append(logs, LogFetchError(r, Head(ch[r]).err))
    /\ errors' = [errors EXCEPT ![r] = Append(@, Head(ch[r]).err)]
    /\ UNCHANGED <<config, hpc, spawned, wg, chMade, chClosed, cpc, fpc, fio, fres,
                   bodyOpen, concatenatedBody, w, panicked>>

AccumulateFront(acc, res) == Contribution(res.body, prefixes) \o acc
AccumulateDedup(acc, res) ==
    IF Contribution(res.body, prefixes) # <<>> /\ Contains(acc, Contribution(res.body, prefixes))
    THEN acc
    ELSE acc \o Contribution(res.body, prefixes)
\* main.go:95-111  concatenatedBody after a successful result
Accumulate(acc, res) == acc \o Contribution(res.body, prefixes)

\* main.go:88-111  one iteration of the range loop on a successful result
RecvSuccess(r) ==
    /\ panicked = ""
    /\ hpc[r] = "range"
    /\ ch[r] # <<>>
    /\ ~IsFailure(Head(ch[r]))
    /\ ch' = [ch EXCEPT ![r] = Tail(@)]
    /\ drained' = [drained EXCEPT ![r] = Append(@, Head(ch[r]))]
    /\ concatenatedBody' = [concatenatedBody EXCEPT ![r] = Accumulate(@, Head(ch[r]))]
    /\ UNCHANGED <<config, hpc, spawned, wg, chMade, chClosed, cpc, fpc, fio, fres,
                   bodyOpen, errors, w, logs, panicked>>

RangeOverWhenEmpty(r) == ch[r] = <<>>
\* main.go:88  the range loop ends: the channel is closed and drained
RangeOver(r) == chClosed[r] /\ ch[r] = <<>>

RangeEnd(r) ==
    /\ panicked = ""
    /\ hpc[r] = "range"
    /\ RangeOver(r)
    /\ hpc' = [hpc EXCEPT ![r] = "decide"]
    /\ UNCHANGED <<config, spawned, wg, chMade, ch, chClosed, cpc, fpc, fio, fres,
                   bodyOpen, concatenatedBody, errors, drained, w, logs, panicked>>

AnyFailed(r) == Len(errors[r]) > 0
AllFailedOrEmpty(r) == Len(errors[r]) = Len(urls) \/ concatenatedBody[r] = <<>>
\* main.go:115
AllFailed(r) == Len(errors[r]) = Len(urls)

AllFailedMessageWithErrors(r) ==
    MsgAllFailed \o [k \in 1..Len(errors[r]) |-> errors[r][k].detail]
\* main.go:116  the message of the total-failure response
AllFailedMessage(r) == MsgAllFailed

\* main.go:115-118
RespondAllFailed(r) ==
    /\ panicked = ""
    /\ hpc[r] = "decide"
    /\ AllFailed(r)
    /\ w' = [w EXCEPT ![r] = HttpError(AllFailedMessage(r), StatusInternalServerError)]
    /\ hpc' = [hpc EXCEPT ![r] = "returned"]
    /\ UNCHANGED <<config, spawned, wg, chMade, ch, chClosed, cpc, fpc, fio, fres,
                   bodyOpen, concatenatedBody, errors, drained, logs, panicked>>

\* main.go:120-121  the header, then fmt.Fprint writes the body with status 200
RespondOK(r) ==
    /\ panicked = ""
    /\ hpc[r] = "decide"
    /\ ~AllFailed(r)
    /\ w' = [w EXCEPT ![r] = [status |-> StatusOK, contentType |-> TextPlain,
                              body |-> concatenatedBody[r]]]
    /\ hpc' = [hpc EXCEPT ![r] = "returned"]
    /\ UNCHANGED <<config, spawned, wg, chMade, ch, chClosed, cpc, fpc, fio, fres,
                   bodyOpen, concatenatedBody, errors, drained, logs, panicked>>

\* ------------------------------------------------------------- Next
\* A panic ends the process: every action needs panicked = "".
Next ==
    \/ \E r \in Reqs : \E i \in Tasks : Get(r, i)
    \/ \E r \in Reqs : \E i \in Tasks : CheckStatus(r, i)
    \/ \E r \in Reqs : \E i \in Tasks : ReadAll(r, i)
    \/ \E r \in Reqs : \E i \in Tasks : Send(r, i)
    \/ \E r \in Reqs : \E i \in Tasks : CloseBody(r, i)
    \/ \E r \in Reqs : \E i \in Tasks : WgDone(r, i)
    \/ \E r \in Reqs : Entry(r)
    \/ \E r \in Reqs : RejectNoUrls(r)
    \/ \E r \in Reqs : Setup(r)
    \/ \E r \in Reqs : Spawn(r)
    \/ \E r \in Reqs : SpawnCloser(r)
    \/ \E r \in Reqs : RecvFailure(r)
    \/ \E r \in Reqs : RecvSuccess(r)
    \/ \E r \in Reqs : RangeEnd(r)
    \/ \E r \in Reqs : RespondAllFailed(r)
    \/ \E r \in Reqs : RespondOK(r)
    \/ \E r \in Reqs : CloserWait(r)
    \/ \E r \in Reqs : CloserClose(r)

\* ------------------------------------------------- the claims' terms
\* Task i of request r has produced its outcome (it is at, or past, its send).
HasOutcome(r, i) == fpc[r][i] \in {"send", "close", "done", "exit"}
Failed(r, i) == HasOutcome(r, i) /\ fres[r][i].err # NoErr
Succeeded(r, i) == HasOutcome(r, i) /\ fres[r][i].err = NoErr

Returned(r) == hpc[r] = "returned"
TotalFailureResponse == HttpError(MsgAllFailed, StatusInternalServerError)
NoUrlsResponse == HttpError(MsgNoUrls, StatusInternalServerError)

\* C1: for a non-empty target list the handler answers with the 500
\* total-failure response if and only if every target's outcome is a failure,
\* and with status 200 as soon as one target's outcome is a success.
C1_TotalFailureIffAllFailed ==
    \A r \in Reqs :
        (Returned(r) /\ Len(urls) > 0) =>
            /\ (w[r] = TotalFailureResponse) <=> (\A i \in Tasks : Failed(r, i))
            /\ (\E i \in Tasks : Succeeded(r, i)) => w[r].status = StatusOK
            /\ w[r].status \in {StatusOK, StatusInternalServerError}

C1_Witness ==
    \E r \in Reqs :
        /\ Returned(r)
        /\ w[r].status = StatusOK
        /\ \E i, j \in Tasks : Failed(r, i) /\ Succeeded(r, j)

\* C2: with an empty target list the handler answers 500 with the fixed
\* message "No upstream URLs configured." straight from the check: it makes
\* no channel, adds nothing to the WaitGroup, starts no fetch and no closer,
\* and never reaches the range loop.
C2_EmptyTargetsRejected ==
    \A r \in Reqs :
        Len(urls) = 0 =>
            /\ hpc[r] \in {"entry", "check", "returned"}
            /\ Returned(r) => w[r] = NoUrlsResponse
            /\ ~Returned(r) => w[r] = NoResponse
            /\ ~chMade[r] /\ wg[r] = 0 /\ spawned[r] = 0 /\ cpc[r] = "idle"
            /\ ch[r] = <<>> /\ drained[r] = <<>>

C2_Witness ==
    \E r \in Reqs : Len(urls) = 0 /\ Returned(r) /\ w[r].status = StatusInternalServerError

\* C3: when every fetch fails the response is 500 with exactly the fixed
\* total-failure message (as http.Error writes it: the message and a line
\* feed), nothing of any upstream and no error detail; every 500 response
\* carries one of the two fixed messages.
C3_FixedErrorBodies ==
    \A r \in Reqs :
        /\ w[r].status = StatusInternalServerError =>
               w[r].body \in {MsgNoUrls \o <<"\n">>, MsgAllFailed \o <<"\n">>}
        /\ (Returned(r) /\ Len(urls) > 0 /\ \A i \in Tasks : Failed(r, i)) =>
               /\ w[r].status = StatusInternalServerError
               /\ w[r].body = MsgAllFailed \o <<"\n">>

C3_Witness ==
    \E r \in Reqs :
        /\ Returned(r)
        /\ w[r].body = MsgAllFailed \o <<"\n">>
        /\ \E i, j \in Tasks :
              /\ fres[r][i].err.kind = "bad status"
              /\ fres[r][j].err.kind = "failed to get"

\* The lines of a text: the pieces between line feeds, each without the
\* carriage return that may precede its line feed; a text that ends with a
\* line feed has no further, empty, line.
RECURSIVE SplitNL(_)
SplitNL(s) ==
    IF s = <<>> THEN <<>>
    ELSE LET i == IndexNL(s)
         IN IF i = 0 THEN <<s>>
            ELSE <<SubSeq(s, 1, i - 1)>> \o SplitNL(SubSeq(s, i + 1, Len(s)))

Lines(s) == [k \in 1..Len(SplitNL(s)) |-> dropCR(SplitNL(s)[k])]

\* The line starts with at least one configured prefix.
Matches(line) == \E k \in 1..Len(prefixes) : HasPrefix(line, prefixes[k])

\* The filter keeps the line: no filter is configured, or a prefix matches.
Retained(line) == Len(prefixes) = 0 \/ Matches(line)

Count(seq, x) == Cardinality({k \in 1..Len(seq) : seq[k] = x})

\* The matching lines of a sequence of lines, in order, a line feed after each.
RECURSIVE KeepMatching(_)
KeepMatching(lines) ==
    IF lines = <<>> THEN <<>>
    ELSE (IF Matches(Head(lines)) THEN Head(lines) \o <<"\n">> ELSE <<>>)
         \o KeepMatching(Tail(lines))

\* C4 (as claimed): whenever at least one target succeeds the response is 200
\* and its body contains every line of every successful body that the filter
\* retains, every line when the filter is empty.
C4_Claimed_EveryRetainedLinePresent ==
    \A r \in Reqs :
        (Returned(r) /\ \E i \in Tasks : Succeeded(r, i)) =>
            /\ w[r].status = StatusOK
            /\ \A i \in Tasks :
                  Succeeded(r, i) =>
                      \A k \in 1..Len(Lines(fres[r][i].body)) :
                          Retained(Lines(fres[r][i].body)[k]) =>
                              Contains(w[r].body, Lines(fres[r][i].body)[k])

\* C6 (as claimed): under a non-empty filter the output for a successful body
\* is exactly its lines that start with a configured prefix, in their order,
\* a line feed after each, and nothing of the other lines.
C6_Claimed_MatchingLinesExactly ==
    \A r \in Reqs :
        (Len(prefixes) > 0 /\ Len(drained[r]) = 1 /\ drained[r][1].err = NoErr) =>
            concatenatedBody[r] = KeepMatching(Lines(drained[r][1].body))

\* What the drained results add up to: a failed result adds nothing, a
\* successful one its body verbatim under the empty filter and its filtered
\* lines otherwise, in the order of the results.
RECURSIVE ConcatContributions(_)
ConcatContributions(results) ==
    IF results = <<>> THEN <<>>
    ELSE (IF Head(results).err # NoErr THEN <<>>
          ELSE IF Len(prefixes) = 0 THEN Head(results).body
          ELSE FilterBody(Head(results).body, prefixes))
         \o ConcatContributions(Tail(results))

\* C5: the body of a 200 response is exactly the concatenation, in the order
\* the outcomes were drained, of what each successful outcome contributes; a
\* failed outcome contributes no byte.
C5_BodyIsConcatenationInDrainOrder ==
    \A r \in Reqs :
        /\ concatenatedBody[r] = ConcatContributions(drained[r])
        /\ w[r].status = StatusOK =>
              /\ w[r].body = ConcatContributions(drained[r])
              /\ w[r].contentType = TextPlain

C5_Witness ==
    \E r \in Reqs :
        /\ w[r].status = StatusOK
        /\ Len(drained[r]) = 2
        /\ drained[r][1].err = NoErr /\ drained[r][2].err = NoErr
        /\ drained[r][1].body # drained[r][2].body
        /\ w[r].body = drained[r][1].body \o drained[r][2].body

\* The lines written to the output: its pieces between line feeds.
OutLines(r) == SplitNL(concatenatedBody[r])

\* C7: under a non-empty filter no line of a successful body is written more
\* often than it occurs in the body, also when it matches several configured
\* prefixes or a prefix configured twice.
C7_LineEmittedAtMostOnce ==
    \A r \in Reqs :
        (Len(prefixes) > 0 /\ Len(drained[r]) = 1 /\ drained[r][1].err = NoErr) =>
            /\ Len(OutLines(r)) <= Len(Lines(drained[r][1].body))
            /\ \A k \in 1..Len(OutLines(r)) :
                  Count(OutLines(r), OutLines(r)[k])
                      <= Count(Lines(drained[r][1].body), OutLines(r)[k])

C7_Witness ==
    \E r \in Reqs :
        /\ Len(drained[r]) = 1 /\ drained[r][1].err = NoErr
        /\ Len(prefixes) = 2
        /\ \E k \in 1..Len(Lines(drained[r][1].body)) :
              /\ HasPrefix(Lines(drained[r][1].body)[k], prefixes[1])
              /\ HasPrefix(Lines(drained[r][1].body)[k], prefixes[2])
              /\ Count(OutLines(r), Lines(drained[r][1].body)[k]) = 1

\* C8: the outcome of fetchURL follows from what its GET met, in this order:
\* a transport error is a failure; else a status other than 200 is a "bad
\* status" failure naming the status text, and the body is not read; else a
\* read error is a failure; else a success carrying the body read, nil error.
C8_FetchOutcomePriority ==
    \A r \in Reqs : \A i \in Tasks :
        HasOutcome(r, i) =>
            IF fio[r][i].getErr
            THEN /\ fres[r][i] = Result(<<>>, ErrGet(urls[i]))
                 /\ fio[r][i].status = 0 /\ fio[r][i].read = "none"
            ELSE IF fio[r][i].status # StatusOK
            THEN /\ fres[r][i].err.kind = "bad status"
                 /\ fres[r][i].err.detail = StatusText(fio[r][i].status)
                 /\ fres[r][i].err.url = urls[i]
                 /\ fres[r][i].body = <<>>
                 /\ fio[r][i].read = "none"
            ELSE IF fio[r][i].read = "err"
            THEN fres[r][i] = Result(<<>>, ErrRead(urls[i]))
            ELSE /\ fio[r][i].read = "ok"
                 /\ fres[r][i] = Result(fio[r][i].data, NoErr)

C8_Witness ==
    \E r \in Reqs : \E i \in Tasks :
        /\ fpc[r][i] = "exit"
        /\ fio[r][i].status = 204
        /\ fres[r][i].err = ErrStatus(urls[i], 204)
        /\ fio[r][i].read = "none"

NumSuccesses(results) == Cardinality({k \in 1..Len(results) : results[k].err = NoErr})

\* C10: for a non-empty target list the handler reaches its decision, and
\* writes anything to the response, only after every fetch has handed over its
\* outcome and all of them are collected: successes plus failures equal the
\* number of targets.
C10_DecisionAfterAllOutcomes ==
    \A r \in Reqs :
        (Len(urls) > 0 /\ (hpc[r] \in {"decide", "returned"} \/ w[r] # NoResponse)) =>
            /\ \A i \in Tasks : fpc[r][i] \in {"close", "done", "exit"}
            /\ Len(drained[r]) = Len(urls)
            /\ NumSuccesses(drained[r]) + Len(errors[r]) = Len(urls)
            /\ ch[r] = <<>>

C10_Witness ==
    \E r \in Reqs :
        /\ hpc[r] = "decide" /\ w[r] = NoResponse
        /\ Len(urls) = 2 /\ Len(drained[r]) = 2
        /\ Len(errors[r]) = 1

\* The tasks of request r that have handed their outcome to the channel.
SentTasks(r) == {i \in Tasks : fpc[r][i] \in {"close", "done", "exit"}}

\* The outcomes request r's channel has carried so far, in order.
Carried(r) == drained[r] \o ch[r]

\* C11: the handler starts exactly one fetch per entry of the target list,
\* duplicates included; every fetch hands over exactly one outcome, a failure
\* with an empty body or a success with a nil error; a request that has
\* returned has carried exactly len(urls) outcomes.
C11_OneFetchOneOutcomePerTarget ==
    \A r \in Reqs :
        /\ spawned[r] <= Len(urls)
        /\ \A i \in Tasks : (fpc[r][i] # "idle") <=> (i <= spawned[r])
        /\ Len(Carried(r)) = Cardinality(SentTasks(r))
        /\ \A k \in 1..Len(Carried(r)) :
              /\ Carried(r)[k].err # NoErr => Carried(r)[k].body = <<>>
              /\ Count(Carried(r), Carried(r)[k])
                     = Cardinality({i \in SentTasks(r) : fres[r][i] = Carried(r)[k]})
        /\ (Returned(r) /\ Len(urls) > 0) =>
              /\ SentTasks(r) = Tasks
              /\ Len(drained[r]) = Len(urls)

C11_Witness ==
    \E r \in Reqs :
        /\ Returned(r)
        /\ Len(urls) = 2 /\ urls[1] = urls[2]
        /\ Len(drained[r]) = 2
        /\ drained[r][1].err # NoErr /\ drained[r][2].err = NoErr

\* What the successful tasks i..n of request r contribute, taken in the order
\* of the target list instead of the order of completion.
RECURSIVE InTargetOrder(_, _)
InTargetOrder(r, i) ==
    IF i > Len(urls) THEN <<>>
    ELSE (IF fres[r][i].err = NoErr THEN Contribution(fres[r][i].body, prefixes) ELSE <<>>)
         \o InTargetOrder(r, i + 1)

SameLines(a, b) ==
    /\ \A k \in 1..Len(a) : Count(a, a[k]) = Count(b, a[k])
    /\ \A k \in 1..Len(b) : Count(a, b[k]) = Count(b, b[k])

\* C12 (as claimed): the status and the multiset of lines of the response are
\* those of any other completion order of the same outcomes, in particular of
\* the completion in target order.
C12_Claimed_LinesIndependentOfOrder ==
    \A r \in Reqs :
        (Returned(r) /\ Len(urls) > 0) =>
            /\ w[r].status = IF \A i \in Tasks : Failed(r, i)
                             THEN StatusInternalServerError ELSE StatusOK
            /\ w[r].status = StatusOK =>
                  SameLines(SplitNL(w[r].body), SplitNL(InTargetOrder(r, 1)))

\* The log records of request r, in order.
RecordOf(r, rec) == rec.req = r
LogsOf(r) == SelectSeq(logs, LAMBDA rec : RecordOf(r, rec))

FetchErrorRecords(r) == [k \in 1..Len(errors[r]) |-> LogFetchError(r, errors[r][k])]

\* C13 (as claimed): with verbose logging disabled handling a request writes
\* no log record; with it enabled the entry record and one record per failed
\* fetch are written.
C13_Claimed_LogsOnlyWhenVerbose ==
    \A r \in Reqs :
        LogsOf(r) = IF verbose /\ hpc[r] # "entry"
                    THEN <<LogRequest(r)>> \o FetchErrorRecords(r)
                    ELSE <<>>

\* C13 (amended): the entry record is written in verbose mode only; one
\* record per failed fetch, with its error, is written whether or not verbose
\* logging is enabled; nothing else is logged.
C13_EntryLogVerboseOnly_ErrorsAlways ==
    \A r \in Reqs :
        LogsOf(r) = (IF verbose /\ hpc[r] # "entry" THEN <<LogRequest(r)>> ELSE <<>>)
                    \o FetchErrorRecords(r)

C13_Witness ==
    \E r \in Reqs :
        /\ ~verbose
        /\ Returned(r)
        /\ Len(errors[r]) = 1
        /\ logs = <<LogFetchError(r, errors[r][1])>>

\* Task i of request r is in flight: started, its outcome not yet known.
InFlight(r, i) == fpc[r][i] \in {"get", "status", "read"}

\* C14: the dispatch loop never waits for a fetch: while a target is left the
\* next fetch can be started whatever the fetches already started are doing,
\* and a fetch in flight can go on whatever the other fetches are doing.
C14_DispatchNeverWaits ==
    \A r \in Reqs :
        /\ (hpc[r] = "spawn" /\ spawned[r] < Len(urls)) => ENABLED Spawn(r)
        /\ \A i \in Tasks :
              InFlight(r, i) =>
                  ENABLED (Get(r, i) \/ CheckStatus(r, i) \/ ReadAll(r, i))

\* All fetches are in flight at once, none having returned.
C14_Witness ==
    \E r \in Reqs :
        /\ Len(urls) = MaxTargets
        /\ \A i \in Tasks : fpc[r][i] = "get"
        /\ hpc[r] = "spawn"

\* The failures among results, in order.
ErrorsOf(results) ==
    [k \in 1..Len(SelectSeq(results, IsFailure)) |-> SelectSeq(results, IsFailure)[k].err]

\* C15: each request works on its own channel, WaitGroup, accumulator and
\* error list: what its channel has carried are the outcomes of its own
\* tasks, its accumulator, error list and response are built from the results
\* it drained itself, and its range loop can take a buffered result, or end on
\* its closed channel, whatever the other request is doing.
C15_RequestsIsolated ==
    \A r \in Reqs :
        /\ Len(Carried(r)) = Cardinality(SentTasks(r))
        /\ \A k \in 1..Len(Carried(r)) : \E i \in SentTasks(r) : fres[r][i] = Carried(r)[k]
        /\ wg[r] = IF chMade[r] THEN Cardinality({i \in Tasks : fpc[r][i] # "exit"}) ELSE 0
        /\ concatenatedBody[r] = ConcatContributions(drained[r])
        /\ errors[r] = ErrorsOf(drained[r])
        /\ (Returned(r) /\ Len(urls) > 0) =>
              w[r] = IF \A i \in Tasks : Failed(r, i)
                     THEN TotalFailureResponse
                     ELSE [status |-> StatusOK, contentType |-> TextPlain,
                           body |-> ConcatContributions(drained[r])]
        /\ (hpc[r] = "range" /\ ch[r] # <<>>) => ENABLED (RecvFailure(r) \/ RecvSuccess(r))
        /\ (hpc[r] = "range" /\ chClosed[r] /\ ch[r] = <<>>) => ENABLED RangeEnd(r)

\* One request has answered 200 from its own fetch while the other, whose
\* fetch has not returned, waits at its join.
C15_Witness ==
    \E r, q \in Reqs :
        /\ r # q
        /\ Returned(r) /\ w[r].status = StatusOK /\ w[r].body # <<>>
        /\ hpc[q] = "range" /\ \A i \in Tasks : fpc[q][i] = "get"

\* The steps of one goroutine: a fetch task, the handler, the closer.
FetchStep(r, i) ==
    /\ i \in Tasks
    /\ (Get(r, i) \/ CheckStatus(r, i) \/ ReadAll(r, i) \/ Send(r, i)
           \/ CloseBody(r, i) \/ WgDone(r, i))
HandlerStep(r) ==
    \/ Entry(r) \/ RejectNoUrls(r) \/ Setup(r) \/ Spawn(r) \/ SpawnCloser(r)
    \/ RecvFailure(r) \/ RecvSuccess(r) \/ RangeEnd(r)
    \/ RespondAllFailed(r) \/ RespondOK(r)
CloserStep(r) == CloserWait(r) \/ CloserClose(r)

\* Every goroutine that can take a step eventually takes one; an HTTP round
\* trip in flight eventually returns.
Fairness ==
    \A r \in {1} :
        /\ WF_vars(HandlerStep(r))
        /\ WF_vars(CloserStep(r))
        /\ \A i \in 1..MaxTargets : WF_vars(FetchStep(r, i))

\* The request is over: one response written, the handler returned, and every
\* goroutine it started has run to its end with an outcome for every target.
AllTerminated(r) ==
    /\ Returned(r) /\ w[r] # NoResponse
    /\ \A i \in Tasks : fpc[r][i] = "exit" /\ HasOutcome(r, i)
    /\ Len(drained[r]) = Len(urls)
    /\ cpc[r] = IF Len(urls) = 0 THEN "idle" ELSE "exit"

\* C16: when every fetch returns and scheduling is fair, the handler ends up
\* returned with one response, never rewritten once written, and every fetch
\* task and the closer end; every target has its outcome, whatever the other
\* fetches did.
C16_EventuallyOneResponseAllTerminate ==
    /\ <>[](\A r \in {1} : AllTerminated(r))
    /\ [][\A r \in {1} : w[r] # NoResponse => w'[r] = w[r]]_vars

\* A finished request in which one fetch failed and another succeeded.
C16_Witness ==
    \E r \in Reqs :
        /\ AllTerminated(r)
        /\ \E i, j \in Tasks : Failed(r, i) /\ Succeeded(r, j)

\* fetchURL of task i got a response from http.Get.
GotResponse(r, i) == fpc[r][i] \notin {"idle", "get"} /\ ~fio[r][i].getErr
\* Task i is about to call wg.Done(), or has called it and returned.
AtOrPastDone(r, i) == fpc[r][i] \in {"done", "exit"}

\* C17: a task that got a response has closed its body by the time it calls
\* wg.Done() and returns, whether it ended on the bad-status, the read-error
\* or the success path; a task without a response has no body to close.
C17_BodyClosedBeforeDone ==
    \A r \in Reqs : \A i \in Tasks :
        /\ (GotResponse(r, i) /\ AtOrPastDone(r, i)) => bodyOpen[r][i] = "closed"
        /\ (GotResponse(r, i) /\ ~AtOrPastDone(r, i)) => bodyOpen[r][i] = "open"
        /\ ~GotResponse(r, i) => bodyOpen[r][i] = "none"

\* One task has returned on the bad-status path and another, on the
\* read-error path, is about to signal the WaitGroup: both bodies are closed.
C17_Witness ==
    \E r \in Reqs : \E i, j \in Tasks :
        /\ fpc[r][i] = "exit" /\ GotResponse(r, i) /\ BadStatus(fio[r][i].status)
        /\ fpc[r][j] = "done" /\ fio[r][j].read = "err" /\ wg[r] > 0
        /\ bodyOpen[r][i] = "closed" /\ bodyOpen[r][j] = "closed"

\* The tasks of request r that have not yet called wg.Done().
Unsignalled(r) == {i \in Tasks : fpc[r][i] # "exit"}

\* C18: the channel is closed by the closer, once, and only when every task
\* has sent and signalled; a task signals only after its send; from wg.Add
\* on the counter is the number of tasks that have not signalled, so it is
\* len(urls) before any task starts and never negative; no send or close
\* meets a closed channel, and a handler past its range loop has drained
\* len(urls) outcomes.
C18_ClosedOnceAfterAllSends ==
    /\ panicked = ""
    /\ \A r \in Reqs :
        /\ chClosed[r] <=> cpc[r] = "exit"
        /\ cpc[r] \in {"close", "exit"} => (Unsignalled(r) = {} /\ SentTasks(r) = Tasks)
        /\ \A i \in Tasks : fpc[r][i] \in {"done", "exit"} => i \in SentTasks(r)
        /\ wg[r] = IF chMade[r] THEN Cardinality(Unsignalled(r)) ELSE 0
        /\ (\E i \in Tasks : fpc[r][i] # "idle") => chMade[r]
        /\ (spawned[r] = 0 /\ hpc[r] = "spawn") => wg[r] = Len(urls)
        /\ (hpc[r] \in {"decide", "returned"} /\ Len(urls) > 0) =>
              (chClosed[r] /\ ch[r] = <<>> /\ Len(drained[r]) = Len(urls))

\* The closer has closed the channel of MaxTargets tasks while their outcomes
\* are all still buffered: none was sent after the close, none is lost.
C18_Witness ==
    \E r \in Reqs :
        /\ Len(urls) = MaxTargets
        /\ chClosed[r] /\ Len(ch[r]) = Len(urls) /\ drained[r] = <<>>
        /\ hpc[r] = "range"

\* C19: the buffer never holds more than len(urls) outcomes, the outcomes
\* buffered and the tasks still to send together never exceed it, and a task
\* that has its outcome ready can send at once, wherever the collector stands.
C19_SendNeverBlocks ==
    \A r \in Reqs :
        /\ Len(ch[r]) <= Len(urls)
        /\ Len(ch[r]) + Cardinality(Tasks \ SentTasks(r)) <= Len(urls)
        /\ \A i \in Tasks :
              fpc[r][i] = "send" =>
                  /\ ~chClosed[r]
                  /\ Len(ch[r]) < Len(urls)
                  /\ ENABLED Send(r, i)

\* The last task is ready to send while the outcomes of all the others are
\* still buffered and the collector has taken none.
C19_Witness ==
    \E r \in Reqs : \E i \in Tasks :
        /\ Len(urls) = MaxTargets
        /\ fpc[r][i] = "send"
        /\ Len(ch[r]) = Len(urls) - 1
        /\ drained[r] = <<>>

\* C20: a request that has returned with at least one successful fetch and an
\* empty accumulated body is answered 200, text/plain, with the empty body.
C20_EmptyResultIsSuccess ==
    \A r \in Reqs :
        (/\ Returned(r)
         /\ \E i \in Tasks : Succeeded(r, i)
         /\ concatenatedBody[r] = <<>>) =>
            w[r] = [status |-> StatusOK, contentType |-> TextPlain, body |-> <<>>]

\* A successful fetch returned a non-empty body of which the filter retained
\* no line, and the request was answered 200.
C20_Witness ==
    \E r \in Reqs : \E i \in Tasks :
        /\ Returned(r) /\ Succeeded(r, i)
        /\ fres[r][i].body # <<>> /\ prefixes # <<>>
        /\ concatenatedBody[r] = <<>>
        /\ w[r].status = StatusOK /\ w[r].body = <<>>

\* ---------------------------------------------------- specifications
Spec == Init /\ [][Next]_vars
SpecOne == InitOne /\ [][Next]_vars
SpecPair == InitPair /\ [][Next]_vars
FairSpec == InitFair /\ [][Next]_vars /\ Fairness

====
